---- MODULE Spec2Model ----
(***************************************************************************)
(* Model of the rent-payment ledger of tuma-kodi: the M-Pesa collection    *)
(* callback (server/routes/payment.py, mpesa_callback), the tables it      *)
(* reads and writes (server/models.py), the tenant administration that     *)
(* changes what the callback reads (server/routes/tenant.py), the push,    *)
(* query and verify routes with the M-Pesa client and its token cache      *)
(* (server/mpesa_client.py), and the invoice routes                        *)
(* (server/routes/invoices.py).                                            *)
(*                                                                         *)
(* A request is handled by a worker thread with its own database session.  *)
(* Steps of different workers interleave at the database accesses; what a  *)
(* worker computes between two accesses is local and is part of the step   *)
(* of the access that precedes it.                                         *)
(*                                                                         *)
(* Spec is the collection callback under concurrent deliveries; SpecStk    *)
(* adds the routes around it, SpecLedger the administration of tenants and *)
(* invoices, SpecInvoices is the invoice routes under two concurrent       *)
(* clients (create_invoice in two steps, its lookup and its insert), and   *)
(* SpecGateway is the M-Pesa client under concurrent callers while time    *)
(* passes.                                                                 *)
(***************************************************************************)
EXTENDS Integers, Sequences, FiniteSets, TLC

\* Largest TransAmount a callback carries; the monthly rents are 2 and 3.
MaxAmount == 3

\* Python None and SQL NULL in an id column or a local variable.
Null == "null"

\* The worker threads that serve callbacks concurrently.
Handlers == {"h1", "h2"}

-----------------------------------------------------------------------------
(* Strings the code inspects character by character are sequences of       *)
(* one-character strings.                                                  *)

RECURSIVE LStrip(_)
\* str.strip(), left side: drop leading blanks.
LStrip(s) ==
    IF s # <<>> /\ Head(s) = " " THEN LStrip(Tail(s)) ELSE s

RECURSIVE RStrip(_)
\* str.strip(), right side: drop trailing blanks.
RStrip(s) ==
    IF s # <<>> /\ s[Len(s)] = " " THEN RStrip(SubSeq(s, 1, Len(s) - 1)) ELSE s

\* str.strip() as used on BillRefNumber.
Strip(s) == RStrip(LStrip(s))

\* str.startswith(prefix).
StartsWith(s, prefix) ==
    /\ Len(s) >= Len(prefix)
    /\ SubSeq(s, 1, Len(prefix)) = prefix

Digits == <<"0", "1", "2", "3", "4", "5", "6", "7", "8", "9">>

\* The value of one decimal digit character, -1 for any other character.
DigitValue(c) ==
    IF \E i \in 1..10 : Digits[i] = c
    THEN (CHOOSE i \in 1..10 : Digits[i] = c) - 1
    ELSE -1

RECURSIVE DecimalValue(_)
\* The number a string of decimal digits denotes.
DecimalValue(s) ==
    IF s = <<>> THEN 0
    ELSE 10 * DecimalValue(SubSeq(s, 1, Len(s) - 1)) + DigitValue(s[Len(s)])

-----------------------------------------------------------------------------
(* JSON values of the callback body: a field is absent, a JSON number or a *)
(* JSON string.                                                            *)

Absent == [kind |-> "absent", num |-> 0, str |-> <<>>]
Num(n) == [kind |-> "number", num |-> n, str |-> <<>>]
Str(s) == [kind |-> "string", num |-> 0, str |-> s]

\* Python truthiness of data.get(field), as all([...]) applies it: None,
\* the number 0 and the empty string are false.
Truthy(v) ==
    CASE v.kind = "absent" -> FALSE
      [] v.kind = "number" -> v.num # 0
      [] v.kind = "string" -> v.str # <<>>

\* float(amount) succeeds: a number, or a string of decimal digits.
FloatParses(v) ==
    \/ v.kind = "number"
    \/ /\ v.kind = "string"
       /\ v.str # <<>>
       /\ \A i \in 1..Len(v.str) : DigitValue(v.str[i]) >= 0

\* float(amount), where it succeeds.
FloatOf(v) == IF v.kind = "number" THEN v.num ELSE DecimalValue(v.str)

\* The number of days of a month.
DaysInMonth(y, m) ==
    IF m \in {4, 6, 9, 11} THEN 30
    ELSE IF m # 2 THEN 31
    ELSE IF (y % 4 = 0 /\ y % 100 # 0) \/ y % 400 = 0 THEN 29 ELSE 28

\* The digit groups <<YYYY, mm, dd, HH, MM, SS>> of a 14-character string.
DateFields(s) ==
    << DecimalValue(SubSeq(s, 1, 4)), DecimalValue(SubSeq(s, 5, 6)),
       DecimalValue(SubSeq(s, 7, 8)), DecimalValue(SubSeq(s, 9, 10)),
       DecimalValue(SubSeq(s, 11, 12)), DecimalValue(SubSeq(s, 13, 14)) >>

\* datetime.strptime(trans_time, '%Y%m%d%H%M%S') succeeds on a string of
\* fourteen characters.
StrptimeParses(s) ==
    /\ Len(s) = 14
    /\ \A i \in 1..14 : DigitValue(s[i]) >= 0
    /\ LET t == DateFields(s)
       IN /\ t[1] \in 1..9999
          /\ t[2] \in 1..12
          /\ t[3] \in 1..DaysInMonth(t[1], t[2])
          /\ t[4] \in 0..23
          /\ t[5] \in 0..59
          /\ t[6] \in 0..61

\* datetime.utcnow() at ingestion, as <<year, month, day, hour, minute, second>>.
UtcNow == <<2024, 2, 10, 8, 0, 0>>

\* payment_date of the callback: the parsed TransTime, or the ingestion time.
PaymentDate(trans_time) ==
    IF StrptimeParses(trans_time) THEN DateFields(trans_time) ELSE UtcNow

\* payment_date.strftime('%Y-%m'): the year and the month of a datetime.
StrftimeYm(dt) == <<dt[1], dt[2]>>

\* The phone number as the callback stores it.
FormatPhone(phone) ==
    IF StartsWith(phone, <<"+">>) THEN phone
    ELSE IF StartsWith(phone, <<"2", "5", "4">>) THEN <<"+">> \o phone
    ELSE IF StartsWith(phone, <<"0">>) THEN <<"+", "2", "5", "4">> \o Tail(phone)
    ELSE phone

-----------------------------------------------------------------------------
(* The tables.  Row ids are names; Null is the id no row has.              *)

\* apartments: two units of one property.  No operation of the model
\* creates or renames an apartment.
Apartments ==
    { [id |-> "apt1", apartment_number |-> <<"A", "1", "2">>, property_id |-> "prop1"],
      [id |-> "apt2", apartment_number |-> <<"B", "7">>, property_id |-> "prop1"] }

TenantIds == {"ten1", "ten2"}
TenantStatuses == {"active", "inactive"}

\* tenants when the server starts: ten1 rents A12, ten2 has left it; B7 is
\* vacant.
InitialTenants ==
    ("ten1" :> [apartment_id |-> "apt1", status |-> "active", monthly_rent |-> 2]) @@
    ("ten2" :> [apartment_id |-> "apt1", status |-> "inactive", monthly_rent |-> 3])

\* The attributes of the mapped class Payment: its columns and the
\* relationships that point at it.
PaymentAttributes ==
    { "id", "tenant_id", "apartment_id", "amount", "payment_method",
      "mpesa_receipt_number", "transaction_id", "payment_date",
      "month_paid_for", "status", "late_fee", "created_at", "updated_at",
      "tenant", "apartment", "invoice" }

\* The keyword arguments mpesa_callback passes to Payment(...).
PaymentKwargs ==
    { "tenant_id", "apartment_id", "payment_date", "tenant_name",
      "apartment_number", "amount", "mpesa_receipt_number", "payment_method",
      "month_paid_for", "status", "phone_number" }

\* The declarative constructor of a mapped class raises TypeError for a
\* keyword that is no attribute of the class.
PaymentCtorAccepts == PaymentKwargs \subseteq PaymentAttributes

\* Payment.tenant_id is declared nullable=False.
TenantIdNullable == FALSE

\* mpesa_receipt_number = db.Column(db.String(100)): no unique=True, so a
\* commit is never rejected for a receipt number that is already stored.
ReceiptUnique == FALSE

\* A payments row (the columns the ledger's rules read).  No code sets
\* transaction_id.
PaymentRow(id, tenant_id, apartment_id, amount, receipt, month, status) ==
    [ id |-> id, tenant_id |-> tenant_id, apartment_id |-> apartment_id,
      amount |-> amount, mpesa_receipt_number |-> receipt,
      transaction_id |-> <<>>, payment_method |-> "mpesa",
      month_paid_for |-> month, status |-> status ]

\* An invoices row.
InvoiceRow(id, tenant_id, month, status, payment_id) ==
    [ id |-> id, tenant_id |-> tenant_id, month_year |-> month,
      status |-> status, payment_id |-> payment_id ]

\* The primary keys the payments table hands out, in order.
PaymentIds == <<"pay1", "pay2", "pay3", "pay4", "pay5", "pay6">>

\* The ledgers the server may find when it starts: empty of payments, or
\* holding the payment QAX1 of ten1 for January, whose invoice is pending
\* or marked paid by it.
InitialLedgers ==
    LET p1 == PaymentRow("pay1", "ten1", "apt1", 2, <<"Q", "A", "X", "1">>,
                         <<2024, 1>>, "completed")
    IN { [payments |-> {},
          invoices |-> {InvoiceRow("inv1", "ten1", <<2024, 1>>, "pending", Null)}],
         [payments |-> {p1},
          invoices |-> {InvoiceRow("inv1", "ten1", <<2024, 1>>, "pending", Null)}],
         [payments |-> {p1},
          invoices |-> {InvoiceRow("inv1", "ten1", <<2024, 1>>, "paid", "pay1")}] }

-----------------------------------------------------------------------------
(* The callback bodies delivered to the server.                            *)

TransIDs == { <<"Q", "A", "X", "1">>, <<"Q", "A", "X", "2">> }

\* A12 is let, B7 is vacant, Z99 does not exist.
BillRefs == { <<"A", "1", "2">>, <<"B", "7">>, <<"Z", "9", "9">> }

\* "20240105103000"
JanuaryTime ==
    <<"2", "0", "2", "4", "0", "1", "0", "5", "1", "0", "3", "0", "0", "0">>

\* "20241305103000", which names no month.
NoMonthTime ==
    <<"2", "0", "2", "4", "1", "3", "0", "5", "1", "0", "3", "0", "0", "0">>

Msisdn == <<"0", "7", "1", "2">>

\* Bodies with all five fields, a positive numeric amount and a timestamp.
WellFormedEvents ==
    [ TransID : {Str(r) : r \in TransIDs},
      BillRefNumber : {Str(b) : b \in BillRefs},
      TransAmount : {Num(n) : n \in 1..MaxAmount},
      MSISDN : {Str(Msisdn)},
      TransTime : {Str(JanuaryTime)} ]

BaseEvent ==
    [ TransID |-> Str(<<"Q", "A", "X", "2">>),
      BillRefNumber |-> Str(<<"A", "1", "2">>),
      TransAmount |-> Num(2),
      MSISDN |-> Str(Msisdn),
      TransTime |-> Str(JanuaryTime) ]

\* Bodies with one field absent; with an amount that is zero, negative, a
\* string of digits or a string that is no number; with blanks around the
\* apartment number; with a timestamp that does not parse; with the phone
\* number in its other spellings.
OddEvents ==
    { [BaseEvent EXCEPT ![f] = Absent] :
        f \in {"TransID", "BillRefNumber", "TransAmount", "MSISDN", "TransTime"} }
    \cup
    { [BaseEvent EXCEPT !.TransAmount = a] :
        a \in { Num(0), Num(-1), Str(<<"2">>), Str(<<"0">>), Str(<<"a">>), Str(<<>>) } }
    \cup
    { [BaseEvent EXCEPT !.BillRefNumber = Str(<<" ", "A", "1", "2", " ">>)],
      [BaseEvent EXCEPT !.TransTime = Str(NoMonthTime)],
      [BaseEvent EXCEPT !.MSISDN = Str(<<"2", "5", "4", "7", "1", "2">>)],
      [BaseEvent EXCEPT !.MSISDN = Str(<<"+", "2", "5", "4", "7", "1", "2">>)],
      [BaseEvent EXCEPT !.MSISDN = Str(<<"7", "1", "2">>)] }

Events == WellFormedEvents \cup OddEvents

\* What a handler holds while it handles no request.
NoEvent ==
    [ TransID |-> Absent, BillRefNumber |-> Absent, TransAmount |-> Absent,
      MSISDN |-> Absent, TransTime |-> Absent ]

-----------------------------------------------------------------------------
(* The M-Pesa client (server/mpesa_client.py) and the requests of the      *)
(* routes that use it.  Time is counted in units of five minutes.          *)

\* Latest time the clock reaches.
MaxTime == 12

\* timedelta(minutes=55): how long get_access_token trusts a cached token.
CacheWindow == 11

\* "Token is valid for 1 hour": how long the provider honours a token.
ProviderLifetime == 12

\* self.access_token = None.  A token is named by the time the provider
\* issued it.
NoToken == -1

\* self.token_expiry = None.
NoTime == -1

\* The worker threads that serve the other routes.
Callers == {"c1", "c2"}

\* phone_number.replace(' ', '').replace('+', '').replace('-', ''), then the
\* 254 prefix.
format_phone_number(phone_number) ==
    LET p == SelectSeq(phone_number, LAMBDA ch : ch \notin {" ", "+", "-"})
        prefix == <<"2", "5", "4">>
    IN IF StartsWith(p, <<"0">>) THEN prefix \o SubSeq(p, 2, Len(p))
       ELSE IF StartsWith(p, prefix) THEN p
       ELSE IF StartsWith(p, <<"7">>) \/ StartsWith(p, <<"1">>) THEN prefix \o p
       ELSE p

\* len(formatted) == 12 and formatted.startswith('254'), and then
\* startswith('2547') or startswith('2541').
validate_phone_number(phone_number) ==
    LET formatted == format_phone_number(phone_number)
    IN /\ Len(formatted) = 12
       /\ StartsWith(formatted, <<"2", "5", "4">>)
       /\ \/ StartsWith(formatted, <<"2", "5", "4", "7">>)
          \/ StartsWith(formatted, <<"2", "5", "4", "1">>)

\* Tenant.phone of the tenants.
TenantPhone ==
    [ t \in TenantIds |->
        IF t = "ten1" THEN <<"0", "7", "1", "2", "3", "4", "5", "6", "7", "8">>
        ELSE <<"0", "1", "1", "2", "3", "4", "5", "6", "7", "8">> ]

\* The phone numbers a push request names.
Phones ==
    { <<"0", "7", "1", "2", "3", "4", "5", "6", "7", "8">>,
      <<"7", "1", "2", "3", "4", "5", "6", "7", "8">>,
      <<"+", "2", "5", "4", "7", "1", "2", "3", "4", "5", "6", "7", "8">>,
      <<"2", "5", "4", " ", "7", "1", "2", "-", "3", "4", "5", "-", "6", "7", "8">>,
      <<"0", "1", "1", "2", "3", "4", "5", "6", "7", "8">>,
      <<"0", "8", "1", "2", "3", "4", "5", "6", "7", "8">>,
      <<"0", "7", "1", "2", "3", "4", "5", "6", "7">>,
      <<"0", "7", "1", "2", "3", "x", "5", "6", "7", "8">>,
      <<"1", "2", "3", "4", "5">> }

\* The JSON bodies of POST /mpesa/stk-push, with the user of the JWT: Null
\* for an identity without user row, "landlord" for a user without tenant
\* profile, or the tenant the user is.
StkRequests ==
    { [user |-> u, phone_number |-> ph, apartment_number |-> a] :
        u \in {Null, "landlord"} \cup TenantIds,
        ph \in {Absent, Num(712345678)} \cup { Str(x) : x \in Phones \cup {<<>>} },
        a \in {Absent} \cup { Str(b) : b \in BillRefs } }

\* A push request for apartment A12 that names a valid phone number.
GoodPush ==
    [ user |-> "landlord",
      phone_number |-> Str(<<"0", "7", "1", "2", "3", "4", "5", "6", "7", "8">>),
      apartment_number |-> Str(<<"A", "1", "2">>) ]

\* The bodies of POST /mpesa/stk-callback: without JSON object, or with the
\* ResultCode and the MpesaReceiptNumber of the CallbackMetadata.
StkCallbacks ==
    { [body |-> b, ResultCode |-> rc, MpesaReceiptNumber |-> r] :
        b \in BOOLEAN, rc \in {0, 1}, r \in {Absent} \cup { Str(x) : x \in TransIDs } }

\* A caller that serves no request.
NoCall ==
    [ op |-> "none", pc |-> "idle", phone |-> <<>>, token |-> NoToken,
      role |-> "none", arg |-> Null, month |-> <<>>, http |-> 0,
      result |-> "none" ]

-----------------------------------------------------------------------------
VARIABLES
    tenants,    \* table tenants: id -> row
    payments,   \* table payments: the set of committed rows
    invoices,   \* table invoices: the set of committed rows
    smsUp,      \* the SMS gateway accepts messages
    sms,        \* the notifications handed to the SMS gateway, in order
    pc,         \* per handler: "idle", "lookup" (passed the duplicate check), "done"
    req,        \* per handler: the callback body it is handling
    loc,        \* per handler: the local variables of mpesa_callback
    resp,       \* per handler: the response it returned
    now,        \* datetime.now(), in units of five minutes
    access_token,   \* mpesa_client.access_token: the issue time of the cached token
    token_expiry,   \* mpesa_client.token_expiry
    pushed,     \* the PartyA / PhoneNumber of the push requests sent to the provider
    call        \* per caller: the request to another route it is serving

\* The M-Pesa client, the clock and the workers of the other routes.
gateway == <<now, access_token, token_expiry, pushed, call>>

vars == <<tenants, payments, invoices, smsUp, sms, pc, req, loc, resp,
          now, access_token, token_expiry, pushed, call>>

\* The locals of a handler that has not reached the tenant lookup.
NoLocals ==
    [ apartment_id |-> Null, tenant_id |-> Null, expected_rent |-> 0,
      amount |-> 0, status |-> Null, month_paid_for |-> <<>>,
      phone_number |-> <<>> ]

\* jsonify({'ResultCode': code, 'ResultDesc': desc}), http
Response(code, http, desc) == [ResultCode |-> code, http |-> http, ResultDesc |-> desc]

NoResponse == Response(-1, 0, "none")

\* The server starts on the tenants table given and one of the ledgers.
InitFrom(tenantTable, ledgers) ==
    /\ tenants = tenantTable
    /\ \E l \in ledgers :
        /\ payments = l.payments
        /\ invoices = l.invoices
    /\ smsUp \in BOOLEAN
    /\ sms = <<>>
    /\ pc = [h \in Handlers |-> "idle"]
    /\ req = [h \in Handlers |-> NoEvent]
    /\ loc = [h \in Handlers |-> NoLocals]
    /\ resp = [h \in Handlers |-> NoResponse]
    /\ now = 0
    /\ access_token = NoToken
    /\ token_expiry = NoTime
    /\ pushed = {}
    /\ call = [c \in Callers |-> NoCall]

Init == InitFrom(InitialTenants, InitialLedgers)

-----------------------------------------------------------------------------
(* mpesa_callback.                                                         *)

\* all([mpesa_receipt, apartment_number, amount, phone_number, trans_time])
HasRequiredFields(ev) ==
    /\ Truthy(ev.TransID)
    /\ Truthy(ev.BillRefNumber)
    /\ Truthy(ev.TransAmount)
    /\ Truthy(ev.MSISDN)
    /\ Truthy(ev.TransTime)

\* Fault: the duplicate lookup filters on transaction_id, which no row has
\* set, instead of mpesa_receipt_number.
DuplicateFoundByTransactionId(receipt) ==
    \E p \in payments : p.transaction_id = receipt

\* Payment.query.filter_by(mpesa_receipt_number=mpesa_receipt).first() is
\* not None.
DuplicateFound(receipt) ==
    \E p \in payments : p.mpesa_receipt_number = receipt

\* Apartment.query.filter_by(apartment_number=apartment_number.strip()):
\* the rows first() may return.
FindApartment(number) ==
    { a \in Apartments : a.apartment_number = Strip(number) }

\* Tenant.query.filter_by(apartment_id=..., status='active'): the rows
\* first() may return.
ActiveTenants(apartment_id) ==
    { t \in TenantIds : /\ tenants[t].apartment_id = apartment_id
                        /\ tenants[t].status = "active" }

\* The status of a payment of an active tenant.
Classify(amount, expected_rent) ==
    IF amount < expected_rent THEN "partial" ELSE "completed"

\* The handler returns r.
Return(h, ev, l, r) ==
    /\ pc' = [pc EXCEPT ![h] = "done"]
    /\ req' = [req EXCEPT ![h] = ev]
    /\ loc' = [loc EXCEPT ![h] = l]
    /\ resp' = [resp EXCEPT ![h] = r]

\* Fault: the except clause acknowledges the event to the gateway although
\* nothing was stored.
RaiseAcknowledged(h, l, desc) ==
    /\ Return(h, req[h], l, Response(0, 200, desc))
    /\ UNCHANGED <<tenants, payments, invoices, smsUp, sms, gateway>>

\* except Exception: log, db.session.rollback() of a session that holds no
\* flushed change, and the error response.
Raise(h, l, desc) ==
    /\ Return(h, req[h], l, Response(1, 500, desc))
    /\ UNCHANGED <<tenants, payments, invoices, smsUp, sms, gateway>>

\* The request arrives: the body is read and validated, the amount is
\* converted and the duplicate lookup runs.
McbReceive(h, ev) ==
    /\ pc[h] = "idle"
    /\ IF ~HasRequiredFields(ev)
       THEN Return(h, ev, NoLocals, Response(1, 400, "Missing required fields"))
       ELSE IF ~FloatParses(ev.TransAmount)
       THEN Return(h, ev, NoLocals, Response(1, 400, "Invalid amount format"))
       ELSE IF DuplicateFound(ev.TransID.str)
       THEN Return(h, ev, [NoLocals EXCEPT !.amount = FloatOf(ev.TransAmount)],
                   Response(0, 200, "Transaction already processed"))
       ELSE /\ pc' = [pc EXCEPT ![h] = "lookup"]
            /\ req' = [req EXCEPT ![h] = ev]
            /\ loc' = [loc EXCEPT ![h] = [NoLocals EXCEPT !.amount = FloatOf(ev.TransAmount)]]
            /\ resp' = resp
    /\ UNCHANGED <<tenants, payments, invoices, smsUp, sms, gateway>>

\* The request carries no JSON object: data.get raises, or get_json does.
McbBadBody(h) ==
    /\ pc[h] = "idle"
    /\ Raise(h, NoLocals, "exception")

\* The invoices after the pending invoice of a tenant and month is marked
\* paid by payment id.
LinkInvoice(tenant_id, month, id) ==
    { IF i.tenant_id = tenant_id /\ i.month_year = month /\ i.status = "pending"
      THEN [i EXCEPT !.status = "paid", !.payment_id = id]
      ELSE i : i \in invoices }

\* Fault: the invoice of the tenant and month is marked paid and committed
\* before the Payment is built, whatever the classification.
PersistLinkAnyStatus(h, l) ==
    /\ Return(h, req[h], l, Response(1, 500, "TypeError"))
    /\ invoices' = LinkInvoice(l.tenant_id, l.month_paid_for,
                               PaymentIds[Cardinality(payments) + 1])
    /\ UNCHANGED <<tenants, payments, smsUp, sms, gateway>>

\* Fault: the tenant is notified before the Payment is built and committed.
PersistNotifyFirst(h, l) ==
    /\ Return(h, req[h], l, Response(1, 500, "TypeError"))
    /\ sms' = IF l.tenant_id = Null THEN sms
              ELSE Append(sms, [ kind |-> IF l.status = "completed"
                                          THEN "confirmation" ELSE "partial_notice",
                                 receipt |-> req[h].TransID.str,
                                 delivered |-> smsUp ])
    /\ UNCHANGED <<tenants, payments, invoices, smsUp, gateway>>

\* Fault: the Payment is committed and an exception after the commit ends
\* the handler with the error response.
PersistCommitThenRaise(h, l) ==
    /\ Return(h, req[h], l, Response(1, 500, "exception"))
    /\ payments' = payments \cup
          { PaymentRow(PaymentIds[Cardinality(payments) + 1], l.tenant_id,
                       l.apartment_id, l.amount, req[h].TransID.str,
                       l.month_paid_for, l.status) }
    /\ UNCHANGED <<tenants, invoices, smsUp, sms, gateway>>

\* Payment(...), db.session.add, db.session.commit, the notification and
\* the response, for the locals l of handler h.
Persist(h, l) ==
    IF ~PaymentCtorAccepts
    THEN Raise(h, l, "TypeError")
    ELSE IF \/ l.tenant_id = Null /\ ~TenantIdNullable
            \/ ReceiptUnique /\ DuplicateFound(req[h].TransID.str)
    THEN Raise(h, l, "IntegrityError")
    ELSE LET receipt == req[h].TransID.str
             row == PaymentRow(PaymentIds[Cardinality(payments) + 1], l.tenant_id,
                               l.apartment_id, l.amount, receipt,
                               l.month_paid_for, l.status)
             kind == CASE l.status = "completed" -> "confirmation"
                       [] l.status = "partial" -> "partial_notice"
                       [] OTHER -> "none"
         IN /\ payments' = payments \cup {row}
            /\ sms' = IF kind = "none" THEN sms
                      ELSE Append(sms, [kind |-> kind, receipt |-> receipt,
                                        delivered |-> smsUp])
            /\ Return(h, req[h], l, Response(0, 200, "Payment received successfully"))
            /\ UNCHANGED <<tenants, invoices, smsUp, gateway>>

\* The apartment exists: the tenant lookup, the classification, the payment
\* date and the phone number, then Persist.
ProcessFound(h, found) ==
    \E apartment \in found :
    \E tenant \in (IF ActiveTenants(apartment.id) = {}
                   THEN {Null} ELSE ActiveTenants(apartment.id)) :
       LET expected == IF tenant = Null THEN 0 ELSE tenants[tenant].monthly_rent
           status == IF tenant = Null THEN "pending"
                     ELSE Classify(loc[h].amount, expected)
       IN Persist(h, [ apartment_id |-> apartment.id,
                       tenant_id |-> tenant,
                       expected_rent |-> expected,
                       amount |-> loc[h].amount,
                       status |-> status,
                       month_paid_for |->
                           StrftimeYm(PaymentDate(req[h].TransTime.str)),
                       phone_number |-> FormatPhone(req[h].MSISDN.str) ])

\* Fault: a payment whose BillRefNumber matches no apartment is stored as an
\* orphan row instead of being discarded.
McbProcessStoreOrphan(h) ==
    /\ pc[h] = "lookup"
    /\ LET found == FindApartment(req[h].BillRefNumber.str)
       IN IF found = {}
          THEN /\ payments' = payments \cup
                     { PaymentRow(PaymentIds[Cardinality(payments) + 1], Null, Null,
                                  loc[h].amount, req[h].TransID.str,
                                  StrftimeYm(PaymentDate(req[h].TransTime.str)),
                                  "pending") }
               /\ Return(h, req[h], loc[h],
                         Response(0, 200, "Payment received successfully"))
               /\ UNCHANGED <<tenants, invoices, smsUp, sms, gateway>>
          ELSE ProcessFound(h, found)

\* After the duplicate check: the apartment lookup, and the rest of the
\* callback if the apartment exists.
McbProcess(h) ==
    /\ pc[h] = "lookup"
    /\ LET found == FindApartment(req[h].BillRefNumber.str)
       IN IF found = {}
          THEN /\ Return(h, req[h], loc[h], Response(1, 404, "Apartment not found"))
               /\ UNCHANGED <<tenants, payments, invoices, smsUp, sms, gateway>>
          ELSE ProcessFound(h, found)

\* The worker thread takes up the next request.
Recycle(h) ==
    /\ pc[h] = "done"
    /\ pc' = [pc EXCEPT ![h] = "idle"]
    /\ req' = [req EXCEPT ![h] = NoEvent]
    /\ loc' = [loc EXCEPT ![h] = NoLocals]
    /\ resp' = [resp EXCEPT ![h] = NoResponse]
    /\ UNCHANGED <<tenants, payments, invoices, smsUp, sms, gateway>>

-----------------------------------------------------------------------------
(* What changes around the callback.                                       *)

\* update_tenant: the landlord sets a tenant's status.
UpdateTenant(t, s) ==
    /\ tenants' = [tenants EXCEPT ![t].status = s]
    /\ UNCHANGED <<payments, invoices, smsUp, sms, pc, req, loc, resp, gateway>>

\* The SMS gateway goes down or comes back: sms.send raises or returns.
SmsGatewayChange ==
    /\ smsUp' = ~smsUp
    /\ UNCHANGED <<tenants, payments, invoices, sms, pc, req, loc, resp, gateway>>

Next ==
    \/ \E h \in Handlers, ev \in Events : McbReceive(h, ev)
    \/ \E h \in Handlers : McbBadBody(h)
    \/ \E h \in Handlers : McbProcess(h)
    \/ \E h \in Handlers : Recycle(h)
    \/ \E t \in TenantIds, s \in TenantStatuses : UpdateTenant(t, s)
    \/ SmsGatewayChange

Spec == Init /\ [][Next]_vars

-----------------------------------------------------------------------------
(* The other routes of server/routes/payment.py and the token cache of     *)
(* mpesa_client.  A caller interleaves with the other workers at each      *)
(* database access, at each read or write of the cached token and at each  *)
(* request to the provider.                                                *)

\* The tables and the handlers of the collection callback.
collection == <<tenants, payments, invoices, smsUp, sms, pc, req, loc, resp>>

\* The route of caller c returns.
Answer(c, op, http, result) ==
    call' = [call EXCEPT ![c] = [NoCall EXCEPT !.op = op, !.pc = "done",
                                               !.http = http, !.result = result]]

\* A route that is called for a user of a role and names a row returns.
Reply(c, op, role, arg, http, result) ==
    call' = [call EXCEPT ![c] = [NoCall EXCEPT !.op = op, !.pc = "done",
                                               !.role = role, !.arg = arg,
                                               !.http = http, !.result = result]]

\* initiate_stk_push up to the call of mpesa_client.stk_push: the user, the
\* apartment and tenant lookups and the validation of the phone number.
InitiateStkPush(c, d) ==
    /\ call[c].pc = "idle"
    /\ LET byNumber == Truthy(d.apartment_number)
           found == { a \in Apartments : /\ d.apartment_number.kind = "string"
                                         /\ a.apartment_number = d.apartment_number.str }
       IN IF d.user = Null
          THEN Answer(c, "push", 404, "User not found")
          ELSE IF ~byNumber /\ d.user \notin TenantIds
          THEN Answer(c, "push", 404, "No tenant profile found")
          ELSE IF byNumber /\ found = {}
          THEN Answer(c, "push", 404, "Apartment not found")
          ELSE IF byNumber /\ \A a \in found : ActiveTenants(a.id) = {}
          THEN Answer(c, "push", 404, "No active tenant")
          ELSE \E t \in (IF byNumber
                         THEN UNION { ActiveTenants(a.id) : a \in found }
                         ELSE {d.user}) :
                 LET phone == IF Truthy(d.phone_number) THEN d.phone_number
                              ELSE Str(TenantPhone[t])
                 IN IF phone.kind # "string"
                    THEN Answer(c, "push", 500, "AttributeError")
                    ELSE IF ~validate_phone_number(phone.str)
                    THEN Answer(c, "push", 400, "Invalid phone number")
                    ELSE call' = [call EXCEPT ![c] =
                                    [NoCall EXCEPT !.op = "push", !.pc = "token",
                                                   !.phone = phone.str]]
    /\ UNCHANGED <<collection, now, access_token, token_expiry, pushed>>

\* query_stk_status up to get_access_token.
QueryStkStatus(c) ==
    /\ call[c].pc = "idle"
    /\ call' = [call EXCEPT ![c] = [NoCall EXCEPT !.op = "query", !.pc = "token"]]
    /\ UNCHANGED <<collection, now, access_token, token_expiry, pushed>>

\* if self.access_token and self.token_expiry and now < self.token_expiry.
CachedTokenValid ==
    /\ access_token # NoToken
    /\ token_expiry # NoTime
    /\ now < token_expiry

\* get_access_token: the cached token is returned, or the token request is
\* sent.
GetAccessToken(c) ==
    /\ call[c].pc = "token"
    /\ IF CachedTokenValid
       THEN call' = [call EXCEPT ![c].pc = "post", ![c].token = access_token]
       ELSE call' = [call EXCEPT ![c].pc = "token_wait"]
    /\ UNCHANGED <<collection, now, access_token, token_expiry, pushed>>

\* The provider issues a token for the request of caller c.
ProviderIssuesToken(c) ==
    /\ call[c].pc = "token_wait"
    /\ call' = [call EXCEPT ![c].pc = "token_reply", ![c].token = now]
    /\ UNCHANGED <<collection, now, access_token, token_expiry, pushed>>

\* The response arrives: the token is cached for the next 55 minutes and
\* returned.
TokenResponse(c) ==
    /\ call[c].pc = "token_reply"
    /\ access_token' = call[c].token
    /\ token_expiry' = now + CacheWindow
    /\ call' = [call EXCEPT ![c].pc = "post"]
    /\ UNCHANGED <<collection, now, pushed>>

\* requests raises (connection refused or reset, HTTP error status): the
\* route answers 500.
TokenFailure(c) ==
    /\ call[c].pc = "token_wait"
    /\ Answer(c, call[c].op, 500, "Failed to get access token")
    /\ UNCHANGED <<collection, now, access_token, token_expiry, pushed>>

\* stk_push or query_stk_status after get_access_token: the payload is
\* built, with the formatted phone number for a push, and posted.
Post(c) ==
    /\ call[c].pc = "post"
    /\ pushed' = IF call[c].op = "push"
                 THEN pushed \cup {format_phone_number(call[c].phone)}
                 ELSE pushed
    /\ call' = [call EXCEPT ![c].pc = "post_wait", ![c].token = NoToken]
    /\ UNCHANGED <<collection, now, access_token, token_expiry>>

\* The provider answers the post with ResponseCode code: 200, or 400 for a
\* push that the provider did not accept.
PostResponse(c, code) ==
    /\ call[c].pc = "post_wait"
    /\ IF call[c].op = "push" /\ code # "0"
       THEN Answer(c, "push", 400, "STK Push failed")
       ELSE Answer(c, call[c].op, 200, "success")
    /\ UNCHANGED <<collection, now, access_token, token_expiry, pushed>>

\* requests raises for the post: the route answers 500.
PostFailure(c) ==
    /\ call[c].pc = "post_wait"
    /\ Answer(c, call[c].op, 500,
              IF call[c].op = "push" THEN "STK Push failed" ELSE "Query failed")
    /\ UNCHANGED <<collection, now, access_token, token_expiry, pushed>>

\* Fault: a successful push result is stored as a Payment of its receipt
\* number.
StkPushCallbackStoresPayment(c, cb) ==
    /\ call[c].pc = "idle"
    /\ Answer(c, "stk_callback", 200, "Callback processed")
    /\ payments' = IF cb.body /\ cb.ResultCode = 0 /\ cb.MpesaReceiptNumber.kind = "string"
                   THEN payments \cup
                          { PaymentRow(PaymentIds[Cardinality(payments) + 1], Null, Null,
                                       1, cb.MpesaReceiptNumber.str, <<2024, 1>>,
                                       "completed") }
                   ELSE payments
    /\ UNCHANGED <<tenants, invoices, smsUp, sms, pc, req, loc, resp,
                   now, access_token, token_expiry, pushed>>

\* stk_push_callback: the result is logged and acknowledged; a request
\* without JSON object raises.
StkPushCallback(c, cb) ==
    /\ call[c].pc = "idle"
    /\ IF cb.body
       THEN Answer(c, "stk_callback", 200, "Callback processed")
       ELSE Answer(c, "stk_callback", 500, "AttributeError")
    /\ UNCHANGED <<collection, now, access_token, token_expiry, pushed>>

\* The attributes verify_payment reads of the Payment it found.
VerifyReads ==
    { "mpesa_receipt_number", "amount", "apartment_number", "tenant_name",
      "payment_date", "month_paid_for", "status" }

\* verify_payment: 404 without a row of the receipt number; with one, the
\* response is built from the row.
VerifyPayment(c, receipt) ==
    /\ call[c].pc = "idle"
    /\ IF \A p \in payments : p.mpesa_receipt_number # receipt
       THEN Answer(c, "verify", 404, "Payment not found")
       ELSE IF VerifyReads \subseteq PaymentAttributes
       THEN Answer(c, "verify", 200, "found")
       ELSE Answer(c, "verify", 500, "AttributeError")
    /\ UNCHANGED <<collection, now, access_token, token_expiry, pushed>>

\* The worker thread takes up the next request.
Finish(c) ==
    /\ call[c].pc = "done"
    /\ call' = [call EXCEPT ![c] = NoCall]
    /\ UNCHANGED <<collection, now, access_token, token_expiry, pushed>>

\* Five minutes pass.
Tick ==
    /\ now < MaxTime
    /\ now' = now + 1
    /\ UNCHANGED <<collection, access_token, token_expiry, pushed, call>>

\* The worker that serves the routes next to the collection callback.
StkWorkers == {"c1"}

\* The collection callback, one request after the other, interleaved with
\* the push, query and verify routes.
NextStk ==
    \/ \E ev \in WellFormedEvents : McbReceive("h1", ev)
    \/ McbProcess("h1")
    \/ Recycle("h1")
    \/ \E c \in StkWorkers, d \in StkRequests : InitiateStkPush(c, d)
    \/ \E c \in StkWorkers : QueryStkStatus(c)
    \/ \E c \in StkWorkers : GetAccessToken(c)
    \/ \E c \in StkWorkers : ProviderIssuesToken(c)
    \/ \E c \in StkWorkers : TokenResponse(c)
    \/ \E c \in StkWorkers : TokenFailure(c)
    \/ \E c \in StkWorkers : Post(c)
    \/ \E c \in StkWorkers, code \in {"0", "1"} : PostResponse(c, code)
    \/ \E c \in StkWorkers : PostFailure(c)
    \/ \E c \in StkWorkers, cb \in StkCallbacks : StkPushCallback(c, cb)
    \/ \E c \in StkWorkers, r \in TransIDs : VerifyPayment(c, r)
    \/ \E c \in StkWorkers : Finish(c)

SpecStk == Init /\ [][NextStk]_vars

\* The M-Pesa client under concurrent push and query requests while time
\* passes; the ledger is empty and stays so.
InitGateway ==
    /\ Init
    /\ payments = {}
    /\ smsUp

NextGateway ==
    \/ \E c \in Callers : InitiateStkPush(c, GoodPush)
    \/ \E c \in Callers : QueryStkStatus(c)
    \/ \E c \in Callers : GetAccessToken(c)
    \/ \E c \in Callers : ProviderIssuesToken(c)
    \/ \E c \in Callers : TokenResponse(c)
    \/ \E c \in Callers : TokenFailure(c)
    \/ \E c \in Callers : Post(c)
    \/ \E c \in Callers, code \in {"0", "1"} : PostResponse(c, code)
    \/ \E c \in Callers : PostFailure(c)
    \/ \E c \in Callers : Finish(c)
    \/ Tick

SpecGateway == InitGateway /\ [][NextGateway]_vars

\* The same, where time passes, every thread that can take its next step
\* takes it and a response that was sent arrives; the provider need not
\* answer.
SpecGatewayFair ==
    /\ InitGateway
    /\ [][NextGateway]_vars
    /\ WF_vars(Tick)
    /\ \A c \in Callers :
          /\ WF_vars(GetAccessToken(c))
          /\ WF_vars(TokenResponse(c))
          /\ WF_vars(Post(c))
          /\ WF_vars(Finish(c))

-----------------------------------------------------------------------------
(* The invoice routes (server/routes/invoices.py) and the lease route of   *)
(* server/routes/tenant.py.  Each runs in one database transaction.        *)

\* user.role of the user of the JWT.
Roles == {"landlord", "tenant", "admin"}

\* The names invoices.py defines at module level besides its routes.
DefinedNames ==
    { "generate_invoice_number", "calculate_total_amount", "is_landlord_of_apartment" }

\* float(rent_amount) + Decimal(late_fee): Python adds no float to a
\* Decimal, calculate_total_amount raises TypeError.
FloatPlusDecimal == FALSE

\* Invoice.due_date is nullable=False and create_invoice passes none.
CreateInvoiceSetsDueDate == FALSE

\* The invoice ids and payment ids a request may name: stored or not.
InvoiceIdsNamed == {"inv1", "inv2", "inv9"}
PaymentIdsNamed == {Null, "pay1", "pay9"}

\* The months an invoice is created for.
InvoiceMonths == { <<2024, 1>>, <<2024, 2>> }

\* The ids the database gives to invoices that are inserted, and the id of
\* the next insert.
NewInvoiceIds == <<"inv3", "inv4", "inv5", "inv6">>

NextInvoiceId ==
    LET free == { k \in 1..Len(NewInvoiceIds) :
                    \A i \in invoices : i.id # NewInvoiceIds[k] }
    IN IF free = {} THEN NewInvoiceIds[Len(NewInvoiceIds)]
       ELSE NewInvoiceIds[CHOOSE k \in free : \A n \in free : k <= n]

\* create_invoice for tenant t and month m by a user of the role, up to the
\* lookup of an invoice of the tenant and month; owns says whether a
\* landlord owns the tenant's apartment.
CreateInvoice(c, role, owns, t, m) ==
    /\ call[c].pc = "idle"
    /\ IF t \notin TenantIds
       THEN Reply(c, "create_invoice", role, t, 404, "Tenant not found")
       ELSE IF role = "landlord" /\ ~owns
       THEN Reply(c, "create_invoice", role, t, 403, "Unauthorized")
       ELSE IF \E i \in invoices : i.tenant_id = t /\ i.month_year = m
       THEN Reply(c, "create_invoice", role, t, 400, "Invoice for this month already exists")
       ELSE call' = [call EXCEPT ![c] = [NoCall EXCEPT !.op = "create_invoice",
                                                       !.pc = "create",
                                                       !.role = role, !.arg = t,
                                                       !.month = m]]
    /\ UNCHANGED <<tenants, payments, invoices, smsUp, sms, pc, req, loc, resp,
                   now, access_token, token_expiry, pushed>>

\* Fault: the total is computed and the due date is set, so the insert that
\* follows the lookup is committed.
CreateInvoiceInsertCommits(c) ==
    /\ call[c].pc = "create"
    /\ Reply(c, "create_invoice", call[c].role, call[c].arg, 201,
             "Invoice created successfully")
    /\ invoices' = invoices \cup
          { InvoiceRow(NextInvoiceId, call[c].arg, call[c].month, "pending", Null) }
    /\ UNCHANGED <<tenants, payments, smsUp, sms, pc, req, loc, resp,
                   now, access_token, token_expiry, pushed>>

\* create_invoice after the lookup: the total, the Invoice and the commit.
CreateInvoiceInsert(c) ==
    /\ call[c].pc = "create"
    /\ IF ~FloatPlusDecimal
       THEN Reply(c, "create_invoice", call[c].role, call[c].arg, 500, "TypeError")
            /\ invoices' = invoices
       ELSE IF ~CreateInvoiceSetsDueDate
       THEN Reply(c, "create_invoice", call[c].role, call[c].arg, 500, "Database error")
            /\ invoices' = invoices
       ELSE /\ Reply(c, "create_invoice", call[c].role, call[c].arg, 201,
                     "Invoice created successfully")
            /\ invoices' = invoices \cup
                  { InvoiceRow(NextInvoiceId, call[c].arg, call[c].month,
                               "pending", Null) }
    /\ UNCHANGED <<tenants, payments, smsUp, sms, pc, req, loc, resp,
                   now, access_token, token_expiry, pushed>>

\* Fault: update_invoice recomputes the total with a defined function, so
\* the status it was given is committed.
UpdateInvoiceCommits(c, role, id, status) ==
    /\ call[c].pc = "idle"
    /\ IF \A i \in invoices : i.id # id
       THEN Reply(c, "update_invoice", role, id, 404, "Not Found") /\ invoices' = invoices
       ELSE IF role = "tenant"
       THEN Reply(c, "update_invoice", role, id, 403, "Tenants cannot update invoices")
            /\ invoices' = invoices
       ELSE /\ Reply(c, "update_invoice", role, id, 200, "Invoice updated successfully")
            /\ invoices' = { IF i.id = id THEN [i EXCEPT !.status = status] ELSE i :
                             i \in invoices }
    /\ UNCHANGED <<tenants, payments, smsUp, sms, pc, req, loc, resp,
                   now, access_token, token_expiry, pushed>>

\* update_invoice of invoice id to the status given.
UpdateInvoice(c, role, id, status) ==
    /\ call[c].pc = "idle"
    /\ IF \A i \in invoices : i.id # id
       THEN Reply(c, "update_invoice", role, id, 404, "Not Found") /\ invoices' = invoices
       ELSE IF role = "landlord" /\ "is_landlord_of_tenant" \notin DefinedNames
       THEN Reply(c, "update_invoice", role, id, 500, "NameError") /\ invoices' = invoices
       ELSE IF role = "tenant"
       THEN Reply(c, "update_invoice", role, id, 403, "Tenants cannot update invoices")
            /\ invoices' = invoices
       ELSE IF "calculate_total" \notin DefinedNames
       THEN Reply(c, "update_invoice", role, id, 500, "NameError") /\ invoices' = invoices
       ELSE /\ Reply(c, "update_invoice", role, id, 200, "Invoice updated successfully")
            /\ invoices' = { IF i.id = id THEN [i EXCEPT !.status = status] ELSE i :
                             i \in invoices }
    /\ UNCHANGED <<tenants, payments, smsUp, sms, pc, req, loc, resp,
                   now, access_token, token_expiry, pushed>>

\* delete_invoice of invoice id.
DeleteInvoice(c, role, id) ==
    /\ call[c].pc = "idle"
    /\ IF \A i \in invoices : i.id # id
       THEN Reply(c, "delete_invoice", role, id, 404, "Not Found") /\ invoices' = invoices
       ELSE IF role = "landlord" /\ "is_landlord_of_tenant" \notin DefinedNames
       THEN Reply(c, "delete_invoice", role, id, 500, "NameError") /\ invoices' = invoices
       ELSE IF \E i \in invoices : i.id = id /\ i.status = "paid"
       THEN Reply(c, "delete_invoice", role, id, 400, "Cannot delete a paid invoice")
            /\ invoices' = invoices
       ELSE IF \E i \in invoices : i.id = id /\ i.payment_id # Null
       THEN Reply(c, "delete_invoice", role, id, 400, "Cannot delete invoice linked to a payment")
            /\ invoices' = invoices
       ELSE /\ Reply(c, "delete_invoice", role, id, 200, "Invoice deleted successfully")
            /\ invoices' = { i \in invoices : i.id # id }
    /\ UNCHANGED <<tenants, payments, smsUp, sms, pc, req, loc, resp,
                   now, access_token, token_expiry, pushed>>

\* Fault: mark_invoice_paid does not look the payment up.
MarkInvoicePaidUnchecked(c, role, id, payment_id) ==
    /\ call[c].pc = "idle"
    /\ IF \A i \in invoices : i.id # id
       THEN Reply(c, "mark_invoice_paid", role, id, 404, "Not Found") /\ invoices' = invoices
       ELSE IF \E i \in invoices : i.id = id /\ i.status = "paid"
       THEN Reply(c, "mark_invoice_paid", role, id, 400, "Invoice is already paid")
            /\ invoices' = invoices
       ELSE IF payment_id = Null
       THEN Reply(c, "mark_invoice_paid", role, id, 400, "payment_id is required")
            /\ invoices' = invoices
       ELSE /\ Reply(c, "mark_invoice_paid", role, id, 200, "Invoice marked as paid")
            /\ invoices' = { IF i.id = id
                             THEN [i EXCEPT !.status = "paid", !.payment_id = payment_id]
                             ELSE i : i \in invoices }
    /\ UNCHANGED <<tenants, payments, smsUp, sms, pc, req, loc, resp,
                   now, access_token, token_expiry, pushed>>

\* Fault: marking the invoice paid also sets the status of the payment.
MarkInvoicePaidSetsPaymentStatus(c, role, id, payment_id) ==
    /\ call[c].pc = "idle"
    /\ Reply(c, "mark_invoice_paid", role, id, 200, "Invoice marked as paid")
    /\ invoices' = { IF i.id = id THEN [i EXCEPT !.status = "paid", !.payment_id = payment_id]
                     ELSE i : i \in invoices }
    /\ payments' = { IF q.id = payment_id THEN [q EXCEPT !.status = "paid"] ELSE q :
                     q \in payments }
    /\ UNCHANGED <<tenants, smsUp, sms, pc, req, loc, resp,
                   now, access_token, token_expiry, pushed>>

\* mark_invoice_paid of invoice id by payment payment_id.
MarkInvoicePaid(c, role, id, payment_id) ==
    /\ call[c].pc = "idle"
    /\ IF \A i \in invoices : i.id # id
       THEN Reply(c, "mark_invoice_paid", role, id, 404, "Not Found") /\ invoices' = invoices
       ELSE IF role = "landlord" /\ "is_landlord_of_tenant" \notin DefinedNames
       THEN Reply(c, "mark_invoice_paid", role, id, 500, "NameError") /\ invoices' = invoices
       ELSE IF \E i \in invoices : i.id = id /\ i.status = "paid"
       THEN Reply(c, "mark_invoice_paid", role, id, 400, "Invoice is already paid")
            /\ invoices' = invoices
       ELSE IF payment_id = Null
       THEN Reply(c, "mark_invoice_paid", role, id, 400, "payment_id is required")
            /\ invoices' = invoices
       ELSE IF \A q \in payments : q.id # payment_id
       THEN Reply(c, "mark_invoice_paid", role, id, 404, "Payment not found")
            /\ invoices' = invoices
       ELSE /\ Reply(c, "mark_invoice_paid", role, id, 200, "Invoice marked as paid")
            /\ invoices' = { IF i.id = id
                             THEN [i EXCEPT !.status = "paid", !.payment_id = payment_id]
                             ELSE i : i \in invoices }
    /\ UNCHANGED <<tenants, payments, smsUp, sms, pc, req, loc, resp,
                   now, access_token, token_expiry, pushed>>

\* create_lease: the landlord sets a tenant's monthly rent and status.
CreateLease(t, rent, s) ==
    /\ tenants' = [tenants EXCEPT ![t].monthly_rent = rent, ![t].status = s]
    /\ UNCHANGED <<payments, invoices, smsUp, sms, pc, req, loc, resp, gateway>>

\* A ledger that also holds a pending January invoice of the former tenant
\* ten2.
TwoInvoiceLedger ==
    [ payments |-> { PaymentRow("pay1", "ten1", "apt1", 2, <<"Q", "A", "X", "1">>,
                                <<2024, 1>>, "completed") },
      invoices |-> { InvoiceRow("inv1", "ten1", <<2024, 1>>, "pending", Null),
                     InvoiceRow("inv2", "ten2", <<2024, 1>>, "pending", Null) } ]

\* The callbacks delivered while the ledger is administered: both TransIDs
\* for each apartment number, with the rent of ten1 as amount.
LedgerEvents == { ev \in WellFormedEvents : ev.TransAmount = Num(2) }

\* The ledgers with the SMS gateway up.
InitLedger ==
    /\ InitFrom(InitialTenants, InitialLedgers \cup {TwoInvoiceLedger})
    /\ smsUp

\* The collection callback, one request after the other, interleaved with
\* the tenant administration and the invoice routes.
NextLedger ==
    \/ \E ev \in LedgerEvents : McbReceive("h1", ev)
    \/ McbProcess("h1")
    \/ Recycle("h1")
    \/ \E t \in TenantIds, s \in TenantStatuses : UpdateTenant(t, s)
    \/ \E t \in TenantIds, rent \in {2, 3}, s \in TenantStatuses : CreateLease(t, rent, s)
    \/ \E c \in StkWorkers, role \in Roles, owns \in BOOLEAN,
          t \in TenantIds \cup {"ten9"}, m \in InvoiceMonths :
             CreateInvoice(c, role, owns, t, m)
    \/ \E c \in StkWorkers : CreateInvoiceInsert(c)
    \/ \E c \in StkWorkers, role \in Roles, id \in InvoiceIdsNamed,
          status \in {"pending", "paid", "overdue"} : UpdateInvoice(c, role, id, status)
    \/ \E c \in StkWorkers, role \in Roles, id \in InvoiceIdsNamed :
          DeleteInvoice(c, role, id)
    \/ \E c \in StkWorkers, role \in Roles, id \in InvoiceIdsNamed,
          payment_id \in PaymentIdsNamed : MarkInvoicePaid(c, role, id, payment_id)
    \/ \E c \in StkWorkers : Finish(c)

SpecLedger == InitLedger /\ [][NextLedger]_vars

\* The invoice routes called by two clients at once.
NextInvoices ==
    \/ \E c \in Callers, role \in Roles, owns \in BOOLEAN,
          t \in TenantIds \cup {"ten9"}, m \in InvoiceMonths :
             CreateInvoice(c, role, owns, t, m)
    \/ \E c \in Callers : CreateInvoiceInsert(c)
    \/ \E c \in Callers, role \in Roles, id \in InvoiceIdsNamed,
          status \in {"pending", "paid", "overdue"} : UpdateInvoice(c, role, id, status)
    \/ \E c \in Callers, role \in Roles, id \in InvoiceIdsNamed :
          DeleteInvoice(c, role, id)
    \/ \E c \in Callers, role \in Roles, id \in InvoiceIdsNamed,
          payment_id \in PaymentIdsNamed : MarkInvoicePaid(c, role, id, payment_id)
    \/ \E c \in Callers : Finish(c)

SpecInvoices == InitLedger /\ [][NextInvoices]_vars

-----------------------------------------------------------------------------
(* Properties of the collection callback.  Payment(...) is called with     *)
(* keywords the mapped class does not have (PaymentCtorAccepts is false),  *)
(* so every new event for an existing apartment ends in Raise.             *)

\* A handler that returned after the tenant lookup: its event was new at
\* the duplicate check and its apartment exists.
Processed(h) == pc[h] = "done" /\ loc[h].apartment_id # Null

\* The payments rows that carry a receipt number.
RowsOf(receipt) == { p \in payments : p.mpesa_receipt_number = receipt }

\* The notifications of one kind dispatched for a receipt number.
Dispatched(kind, receipt) ==
    { i \in DOMAIN sms : sms[i].kind = kind /\ sms[i].receipt = receipt }

\* C1: no two Payment rows ever share a receipt number, and once every
\* handler has returned, each TransID delivered for an existing apartment
\* has exactly one Payment row.
C1_ExactlyOnePaymentPerTransID ==
    /\ \A p, q \in payments :
          p.mpesa_receipt_number = q.mpesa_receipt_number => p = q
    /\ (\A g \in Handlers : pc[g] # "lookup") =>
          \A h \in Handlers :
             Processed(h) => Cardinality(RowsOf(req[h].TransID.str)) = 1

\* C2: a validated event whose TransID already has a committed Payment is
\* answered ResultCode 0 with HTTP 200 in the step that receives it, and
\* that step changes neither the payments nor the invoices, whatever the
\* tenants' state.
C2_ReplayIsNoOpSuccess ==
    [][ \A h \in Handlers :
          ( /\ pc[h] = "idle"
            /\ pc'[h] # "idle"
            /\ HasRequiredFields(req'[h])
            /\ FloatParses(req'[h].TransAmount)
            /\ RowsOf(req'[h].TransID.str) # {} )
          => ( /\ pc'[h] = "done"
               /\ resp'[h].ResultCode = 0
               /\ resp'[h].http = 200
               /\ payments' = payments
               /\ invoices' = invoices ) ]_vars

\* A replay was answered while the tenant the payment belongs to is no
\* longer active.
C2_Witness ==
    \E h \in Handlers :
       /\ pc[h] = "done"
       /\ resp[h] = Response(0, 200, "Transaction already processed")
       /\ RowsOf(req[h].TransID.str) # {}
       /\ tenants["ten1"].status = "inactive"

\* C3: a new event for an apartment with an active tenant of monthly rent R
\* leaves a Payment with status completed if amount >= R and partial if
\* amount < R.
C3_ClassifiedPaymentCreated ==
    \A h \in Handlers :
       (Processed(h) /\ loc[h].tenant_id # Null) =>
          \E p \in RowsOf(req[h].TransID.str) :
             p.status = IF loc[h].amount >= loc[h].expected_rent
                        THEN "completed" ELSE "partial"

\* C4: no step of a handler whose event names no existing apartment (after
\* trimming) changes the payments.
C4_UnmatchedApartmentStoresNothing ==
    [][ \A h \in Handlers :
          ( /\ pc'[h] # pc[h]
            /\ pc'[h] # "idle"
            /\ req'[h].BillRefNumber.kind = "string"
            /\ \A a \in Apartments :
                  a.apartment_number # Strip(req'[h].BillRefNumber.str) )
          => payments' = payments ]_vars

\* An event for the unknown apartment Z99 was discarded.
C4_Witness ==
    \E h \in Handlers :
       /\ pc[h] = "done"
       /\ resp[h].http = 404
       /\ req[h].BillRefNumber.str = <<"Z", "9", "9">>

\* C5: a new event for an existing apartment without active tenant leaves
\* exactly one Payment row, with null tenant and status pending.
C5_VacantUnitPaymentStored ==
    \A h \in Handlers :
       (Processed(h) /\ loc[h].tenant_id = Null) =>
          /\ Cardinality(RowsOf(req[h].TransID.str)) = 1
          /\ \A p \in RowsOf(req[h].TransID.str) :
                p.tenant_id = Null /\ p.status = "pending"

\* C6: the step in which a handler finishes an event classified completed
\* for tenant T and month M, while exactly one pending invoice of T and M
\* exists, leaves that invoice paid and linked to the event's Payment.
C6_CompletedPaymentLinksInvoice ==
    [][ \A h \in Handlers :
          ( /\ pc[h] = "lookup"
            /\ pc'[h] = "done"
            /\ loc'[h].status = "completed"
            /\ Cardinality({ i \in invoices :
                               /\ i.tenant_id = loc'[h].tenant_id
                               /\ i.month_year = loc'[h].month_paid_for
                               /\ i.status = "pending" }) = 1 )
          => \E i \in invoices' :
                /\ i.tenant_id = loc'[h].tenant_id
                /\ i.month_year = loc'[h].month_paid_for
                /\ i.status = "paid"
                /\ \E p \in payments' :
                      /\ p.id = i.payment_id
                      /\ p.mpesa_receipt_number = req[h].TransID.str ]_vars

\* C7: the step in which a handler finishes an event classified partial or
\* pending changes no invoice.
C7_PartialOrPendingLeavesInvoices ==
    [][ \A h \in Handlers :
          ( /\ pc[h] = "lookup"
            /\ pc'[h] = "done"
            /\ loc'[h].status \in {"partial", "pending"} )
          => invoices' = invoices ]_vars

\* An event classified partial was handled while a pending invoice of its
\* tenant and month exists.
C7_Witness ==
    \E h \in Handlers :
       /\ Processed(h)
       /\ loc[h].status = "partial"
       /\ \E i \in invoices :
             /\ i.tenant_id = loc[h].tenant_id
             /\ i.month_year = loc[h].month_paid_for
             /\ i.status = "pending"

\* C8: every notification belongs to a committed Payment of the matching
\* status, and a handled new event has exactly one confirmation if it was
\* classified completed, exactly one partial notice if partial, and no
\* notification if pending.
C8_NotificationFollowsStatus ==
    /\ \A i \in DOMAIN sms :
          \E p \in RowsOf(sms[i].receipt) :
             p.status = IF sms[i].kind = "confirmation"
                        THEN "completed" ELSE "partial"
    /\ \A h \in Handlers :
          Processed(h) =>
             LET r == req[h].TransID.str
             IN /\ Cardinality(Dispatched("confirmation", r)) =
                      IF loc[h].status = "completed" THEN 1 ELSE 0
                /\ Cardinality(Dispatched("partial_notice", r)) =
                      IF loc[h].status = "partial" THEN 1 ELSE 0

\* C9: at most one tenant notification is ever dispatched for one TransID.
C9_AtMostOneNotificationPerTransID ==
    \A r \in TransIDs :
       Cardinality(Dispatched("confirmation", r) \cup Dispatched("partial_notice", r)) <= 1

\* Two concurrent deliveries of one TransID both passed the duplicate check
\* and were both classified for an active tenant.
C9_Witness ==
    \E h, g \in Handlers :
       /\ h # g
       /\ Processed(h) /\ Processed(g)
       /\ req[h].TransID = req[g].TransID
       /\ loc[h].tenant_id # Null
       /\ loc[g].tenant_id # Null

\* C10: a handler that finishes a new event of an active tenant while the
\* SMS gateway is down still answers success and leaves the Payment with
\* the status it was classified with.
C10_SmsFailureKeepsPayment ==
    [][ \A h \in Handlers :
          ( /\ pc[h] = "lookup"
            /\ pc'[h] = "done"
            /\ loc'[h].status \in {"completed", "partial"}
            /\ ~smsUp )
          => ( /\ resp'[h].ResultCode = 0
               /\ resp'[h].http = 200
               /\ \E p \in payments' :
                     /\ p.mpesa_receipt_number = req[h].TransID.str
                     /\ p.status = loc'[h].status ) ]_vars

\* C11: a handler that passed the duplicate check and finishes after
\* another delivery of the same TransID has finished (the delivery that
\* lost the race for the insert) answers ResultCode 0 with HTTP 200.
C11_LostInsertRaceIsSuccess ==
    [][ \A h, g \in Handlers :
          ( /\ h # g
            /\ pc[h] = "lookup"
            /\ pc'[h] = "done"
            /\ Processed(g)
            /\ req[g].TransID = req[h].TransID
            /\ loc'[h].apartment_id # Null )
          => ( /\ resp'[h].ResultCode = 0
               /\ resp'[h].http = 200 ) ]_vars

\* C12: a step of a handler that does not end its invocation with
\* ResultCode 0 (it goes on to the lookups, or ends with ResultCode 1)
\* changes neither the payments nor the invoices.
C12_ErrorLeavesLedger ==
    [][ \A h \in Handlers :
          ( /\ pc'[h] # pc[h]
            /\ pc'[h] # "idle"
            /\ resp'[h].ResultCode # 0 )
          => ( /\ payments' = payments
               /\ invoices' = invoices ) ]_vars

\* An event classified completed ended with ResultCode 1 while a pending
\* invoice of its tenant and month exists: the pair a half-done
\* insert / link would have split.
C12_Witness ==
    \E h \in Handlers :
       /\ Processed(h)
       /\ resp[h].ResultCode = 1
       /\ loc[h].status = "completed"
       /\ \E i \in invoices :
             /\ i.tenant_id = loc[h].tenant_id
             /\ i.month_year = loc[h].month_paid_for
             /\ i.status = "pending"

\* A payload with all five fields and an amount that parses as a number
\* greater than zero.
WellFormed(ev) ==
    /\ HasRequiredFields(ev)
    /\ FloatParses(ev.TransAmount)
    /\ FloatOf(ev.TransAmount) > 0

\* C13: every well-formed payload is answered with HTTP 200, whatever the
\* reconciliation decided.
C13_WellFormedAnswered200 ==
    \A h \in Handlers :
       (pc[h] = "done" /\ WellFormed(req[h])) => resp[h].http = 200

\* C14: a payload that lacks one of the five fields, or whose amount is no
\* number greater than zero, is answered ResultCode 1 with HTTP 200, and
\* no step of its handler changes the payments.
C14_MalformedRejectedAcknowledged ==
    [][ \A h \in Handlers :
          ( /\ pc'[h] # pc[h]
            /\ pc'[h] # "idle"
            /\ req'[h] # NoEvent
            /\ ~WellFormed(req'[h]) )
          => ( /\ payments' = payments
               /\ pc'[h] = "done"
               /\ resp'[h].ResultCode = 1
               /\ resp'[h].http = 200 ) ]_vars

-----------------------------------------------------------------------------
(* Properties of the push, query and verify routes and of the M-Pesa       *)
(* client.                                                                 *)

\* C15: no step of initiate_stk_push, stk_push_callback, query_stk_status
\* or verify_payment (the steps that change a caller) changes the payments,
\* and every step that changes the payments is the step in which a handler
\* of the collection callback finishes.
C15_OnlyCollectionCallbackCreatesPayments ==
    [][ /\ call' # call => payments' = payments
        /\ payments' # payments =>
              \E h \in Handlers : pc[h] = "lookup" /\ pc'[h] = "done" ]_vars

\* A successful push result was acknowledged after a push request had been
\* sent, while a collection callback is between its duplicate check and
\* its lookups.
C15_Witness ==
    \E c \in Callers :
       /\ call[c].op = "stk_callback"
       /\ call[c].http = 200
       /\ pushed # {}
       /\ pc["h1"] = "lookup"

\* The callers whose token request is with the provider or on its way
\* back.
Refreshing == { c \in Callers : call[c].pc \in {"token_wait", "token_reply"} }

\* C16: at no time is more than one token request in flight.
C16_SingleFlightRefresh == Cardinality(Refreshing) <= 1

\* C17: a caller that enters get_access_token while a token is cached and
\* the time is before the cached expiry leaves it with that token, without
\* a token request, and the time is before the provider's expiry of that
\* token.
C17_CachedTokenReturnedWhileValid ==
    [][ \A c \in Callers :
          ( /\ call[c].pc = "token"
            /\ call'[c].pc # "token"
            /\ access_token # NoToken
            /\ now < token_expiry )
          => ( /\ call'[c].pc = "post"
               /\ call'[c].token = access_token
               /\ now < access_token + ProviderLifetime ) ]_vars

\* C18: every push request sent to the provider names a number of twelve
\* digits that starts with 2547 or 2541.
C18_PushedNumbersAreValid ==
    \A p \in pushed :
       /\ Len(p) = 12
       /\ \A i \in 1..Len(p) : \E d \in 1..10 : Digits[d] = p[i]
       /\ SubSeq(p, 1, 4) \in { <<"2", "5", "4", "7">>, <<"2", "5", "4", "1">> }

\* A caller whose request is with the provider or on its way back.
Awaiting(c) == call[c].pc \in {"token_wait", "token_reply", "post_wait"}

\* C19: every request to the provider ends (a caller that awaits a response
\* eventually no longer does), and a caller that awaits a response does not
\* send the request again.
C19_GatewayCallsTerminate ==
    /\ \A c \in Callers : Awaiting(c) ~> ~Awaiting(c)
    /\ [][ \A c \in Callers :
             /\ call[c].pc = "token_wait" =>
                   call'[c].pc \in {"token_wait", "token_reply", "done"}
             /\ call[c].pc = "post_wait" =>
                   call'[c].pc \in {"post_wait", "done"} ]_vars

\* C20: no step deletes a Payment row or changes the amount, the receipt
\* number or the status of one.
C20_PaymentsArePermanent ==
    [][ \A p \in payments :
          \E q \in payments' :
             /\ q.id = p.id
             /\ q.amount = p.amount
             /\ q.mpesa_receipt_number = p.mpesa_receipt_number
             /\ q.status = p.status ]_vars

\* The payment QAX1 is stored, its invoice was marked paid by it in this
\* request, its tenant has left with a changed rent, and a replay of QAX1
\* has been answered.
C20_Witness ==
    /\ \E p \in payments : p.id = "pay1" /\ p.status = "completed"
    /\ \E c \in Callers : call[c].op = "mark_invoice_paid" /\ call[c].http = 200
    /\ tenants["ten1"].status = "inactive"
    /\ tenants["ten1"].monthly_rent = 3
    /\ pc["h1"] = "done"
    /\ resp["h1"].ResultDesc = "Transaction already processed"

-----------------------------------------------------------------------------
(* The invoice routes.                                                     *)

\* C21: while an invoice is paid its payment link does not change, and a
\* mark_invoice_paid request that names an invoice that is already paid is
\* answered 400 and leaves the invoices as they are.
C21_PaidInvoiceKeepsItsLink ==
    [][ /\ \A i \in invoices, j \in invoices' :
             (j.id = i.id /\ i.status = "paid" /\ j.status = "paid")
                => j.payment_id = i.payment_id
        /\ \A c \in Callers :
             ( /\ call[c].pc = "idle"
               /\ call'[c].op = "mark_invoice_paid"
               /\ \E i \in invoices : i.id = call'[c].arg /\ i.status = "paid" )
                => (call'[c].http = 400 /\ invoices' = invoices) ]_vars

-----------------------------------------------------------------------------
(* The tenant routes.                                                      *)

\* C23: in every reachable state each apartment has at most one tenant
\* with status active.
C23_OneActiveTenantPerApartment ==
    \A t \in TenantIds : Cardinality(ActiveTenants(tenants[t].apartment_id)) <= 1

-----------------------------------------------------------------------------
(* Classification, month and acknowledgment of the collection callback.   *)

\* C24: two events with distinct TransIDs for the same tenant and month,
\* each with an amount below the tenant's monthly rent, leave two separate
\* Payment rows that both have status partial, whatever the sum of the
\* amounts.
C24_EachEventClassifiedAlone ==
    \A h, g \in Handlers :
       ( /\ Processed(h) /\ Processed(g)
         /\ req[h].TransID # req[g].TransID
         /\ loc[h].tenant_id # Null
         /\ loc[h].tenant_id = loc[g].tenant_id
         /\ loc[h].month_paid_for = loc[g].month_paid_for
         /\ loc[h].amount < loc[h].expected_rent
         /\ loc[g].amount < loc[g].expected_rent )
       => \E p \in RowsOf(req[h].TransID.str), q \in RowsOf(req[g].TransID.str) :
             /\ p.id # q.id
             /\ p.status = "partial"
             /\ q.status = "partial"

\* C25: an event for an existing apartment leaves a Payment whose
\* month_paid_for is the year and month of its TransTime if that parses as
\* YYYYMMDDHHMMSS, and the year and month of the ingestion time if not.
C25_MonthOfRecordedPayment ==
    \A h \in Handlers :
       Processed(h) =>
          \E p \in RowsOf(req[h].TransID.str) :
             p.month_paid_for =
                IF StrptimeParses(req[h].TransTime.str)
                THEN << DateFields(req[h].TransTime.str)[1],
                        DateFields(req[h].TransTime.str)[2] >>
                ELSE << UtcNow[1], UtcNow[2] >>

\* C26: a callback whose event was classified completed or partial, the
\* events a notification is dispatched for, is acknowledged with ResultCode
\* 0 and HTTP 200 when it returns, whether the SMS gateway is up or down.
C26_AcknowledgedWhateverTheDispatch ==
    \A h \in Handlers :
       (Processed(h) /\ loc[h].status \in {"completed", "partial"})
          => (resp[h].ResultCode = 0 /\ resp[h].http = 200)

\* C27: the step in which a callback returns answers ResultCode 0 only if
\* a Payment row with the event's TransID is stored when it returns, and
\* answers ResultCode 1 whenever no such row is stored.
C27_SuccessMeansStored ==
    [][ \A h \in Handlers :
          (pc[h] # "done" /\ pc'[h] = "done")
          => LET stored == \E p \in payments' :
                              p.mpesa_receipt_number = req'[h].TransID.str
             IN /\ resp'[h].ResultCode = 0 => stored
                /\ ~stored => resp'[h].ResultCode = 1 ]_vars

\* One callback was answered ResultCode 0 for a TransID that is stored, and
\* another one ended in the except clause with ResultCode 1 and no row for
\* its TransID.
C27_Witness ==
    \E h, g \in Handlers :
       /\ pc[h] = "done" /\ pc[g] = "done"
       /\ resp[h].ResultCode = 0
       /\ \E p \in payments : p.mpesa_receipt_number = req[h].TransID.str
       /\ resp[g] = Response(1, 500, "TypeError")
       /\ \A p \in payments : p.mpesa_receipt_number # req[g].TransID.str

-----------------------------------------------------------------------------
(* The invoices and their payments.                                        *)

\* C28: in every reachable state, also while create_invoice requests run
\* concurrently, no two invoices have the same tenant and month.
C28_OneInvoicePerTenantAndMonth ==
    \A i, j \in invoices :
       (i.tenant_id = j.tenant_id /\ i.month_year = j.month_year) => i.id = j.id

\* Two create_invoice requests for the same tenant and month have both
\* passed the lookup of an existing invoice and neither has returned.
C28_Witness ==
    \E c, d \in Callers :
       /\ c # d
       /\ call[c].pc = "create" /\ call[d].pc = "create"
       /\ call[c].arg = call[d].arg
       /\ call[c].month = call[d].month

C30_PaymentLinkedOnceAndToItsTenant ==
    /\ \A i, j \in invoices :
          (i.payment_id # Null /\ i.payment_id = j.payment_id) => i.id = j.id
    /\ \A i \in invoices, p \in payments :
          i.payment_id = p.id => p.tenant_id = i.tenant_id

====
